---- MODULE Spec2Model ----
(***************************************************************************)
(* Model of the dashboard's resilient fetch client (frontend/lib/api.ts),  *)
(* of its request and response helpers, and of the poll loop that drives   *)
(* it (frontend/app/page.tsx).                                             *)
(*                                                                         *)
(* JavaScript runs handlers to completion: one action is one handler, from *)
(* the event that wakes it (a fetch settling, a body read settling, a      *)
(* timer tick, a click) to its next await.  Continuations that are only a  *)
(* microtask hop away (the caller of a settled apiRequest) run in the same *)
(* action.                                                                 *)
(***************************************************************************)
EXTENDS Integers, Sequences, FiniteSets, TLC

\* ------------------------------------------------------------- bounds ----
\* Number of API calls that may be in flight at the same time.
MaxCalls == 2

CallIds == 1..MaxCalls

\* ------------------------------------------------------ configuration ----
DefaultPrimary == "http://localhost:8000"
Fallback1 == "http://localhost:8010"
Fallback2 == "http://127.0.0.1:8010"

\* Values of NEXT_PUBLIC_API_BASE_URL that are modelled: unset (the default)
\* and set to one of the hard-coded fallbacks (the Set then drops a duplicate).
PrimaryChoices == {DefaultPrimary, Fallback1}

\* HTTP statuses a host may answer with.
Statuses == {200, 404, 500}

\* Faulty variant: every status below 500 counts as a success.
OkBelow500(status) == status < 500

\* response.ok
Ok(status) == status >= 200 /\ status <= 299

VARIABLES
  PRIMARY_API_BASE_URL,   \* api.ts:1, fixed at module load
  activeApiBaseUrl,       \* api.ts:6
  calls,                  \* the apiRequest / exportAiModelWeights calls in flight
  settled,                \* the settlement the last step delivered to a caller, if any
  dashboard,              \* the state and the ref of DashboardOverview (page.tsx:41-50)
  invoked,                \* what the fetchLiveData invocation of the last step did:
                          \* at its guard "skipped", "unforced", "forced"; at its
                          \* end "completed", "threw"; else "none"
  helper                  \* the exported helper of api.ts that is called: its
                          \* arguments and, once it ran, what it built

vars ==
  <<PRIMARY_API_BASE_URL, activeApiBaseUrl, calls, settled, dashboard, invoked, helper>>

\* ------------------------------------------------------------ values ----
NoError == [kind |-> "none", status |-> 0, message |-> "", base |-> ""]

\* new Error(`API ${response.status}: ${message || "request failed"}`)
\* The body text of a host is tagged with the host in `base`.
ResponseError(status, message, base) ==
  [kind |-> "api", status |-> status,
   message |-> IF message = "" THEN "request failed" ELSE message,
   base |-> IF message = "" THEN "" ELSE base]

\* The TypeError fetch() or response.text() rejects with.
TransportError(base) ==
  [kind |-> "transport", status |-> 0, message |-> "Failed to fetch", base |-> base]

\* The SyntaxError response.json() rejects with (blob(): a read failure).
DecodeError(base) ==
  [kind |-> "decode", status |-> 0, message |-> "Unexpected token", base |-> base]

\* new Error("request failed")
GenericError == [kind |-> "generic", status |-> 0, message |-> "request failed", base |-> ""]

\* error instanceof Error ? error : new Error("request failed")
CaughtError(error) == IF error.kind = "none" THEN GenericError ELSE error

\* lastError ?? new Error("request failed")
ThrownAtEnd(lastError) == IF lastError.kind = "none" THEN GenericError ELSE lastError

NoPayload == [from |-> "", decoded |-> "", mode |-> "", scenario |-> ""]

\* The body of a successful response from host `base`, decoded by
\* response.json(); body.mode and body.scenario are "" when the JSON has none.
JsonBody(base, body) ==
  [from |-> base, decoded |-> "json", mode |-> body.mode, scenario |-> body.scenario]

\* The same body read by response.blob(): bytes, no fields.
BlobBody(base, body) ==
  [from |-> base, decoded |-> "blob", mode |-> "", scenario |-> ""]

\* The mode and the scenario the user picks in the model.
PickedModes == {"SIMULATION"}
PickedScenarios == {"peak_load"}

\* Bodies a host may answer with: no mode/scenario fields, or both.
ResponseBodies ==
  {[mode |-> "", scenario |-> ""],
   [mode |-> "LIVE_EDGE", scenario |-> "normal"]}

\* Endpoints other than the dashboard's answer without those fields.
PlainBody == [mode |-> "", scenario |-> ""]

\* Body texts of a non-success response: a 404 page, an empty or a filled
\* error body.
BodyTexts == {"", "Not Found", "Internal Server Error"}
BodyTextsOf(status) ==
  IF status = 404 THEN {"Not Found"} ELSE {"", "Internal Server Error"}

\* ------------------------------------------------- candidate ordering ----
RECURSIVE Dedup(_, _)
\* Array.from(new Set(seq)): first occurrences, in order.
Dedup(seq, acc) ==
  IF seq = <<>> THEN acc
  ELSE IF \E k \in 1..Len(acc) : acc[k] = Head(seq)
       THEN Dedup(Tail(seq), acc)
       ELSE Dedup(Tail(seq), Append(acc, Head(seq)))

API_FALLBACK_CANDIDATES ==
  Dedup(<<PRIMARY_API_BASE_URL, Fallback1, Fallback2>>, <<>>)

Range(seq) == {seq[k] : k \in 1..Len(seq)}

\* Faulty variant: the configured order, the active base URL not moved to the front.
CandidateBasesConfiguredOrder(active) == API_FALLBACK_CANDIDATES

\* [activeApiBaseUrl, ...API_FALLBACK_CANDIDATES.filter((base) => base !== activeApiBaseUrl)]
CandidateBases(active) ==
  <<active>> \o SelectSeq(API_FALLBACK_CANDIDATES, LAMBDA base : base # active)

\* The same expression in exportAiModelWeights.
ExportCandidateBases(active) ==
  <<active>> \o SelectSeq(API_FALLBACK_CANDIDATES, LAMBDA base : base # active)

\* ------------------------------------------------------ call records ----
Idle ==
  [st |-> "idle", fn |-> "", owner |-> "", candidateBases |-> <<>>, i |-> 0,
   triedBases |-> {}, lastError |-> NoError, status |-> 0, arg |-> "",
   contacted |-> <<>>, seen |-> {}, startActive |-> "", sawForced |-> FALSE,
   overtaken |-> FALSE, outstanding |-> {}, wrote |-> FALSE,
   forcedAfter |-> FALSE, stale |-> FALSE]

\* Bookkeeping fields of a call record, not state of the program: contacted
\* (the candidates fetched so far), seen (the kinds of non-success status
\* received), startActive (activeApiBaseUrl when the call started), sawForced
\* (for an unforced poll: a forced fetchLiveData was in flight during it, or
\* during a poll it overlaps) and overtaken (after the call's success status:
\* another call has set activeApiBaseUrl to a different candidate) and
\* outstanding (the candidates whose fetch was issued and whose response, or
\* error body, has not arrived yet), wrote (the call has assigned
\* activeApiBaseUrl), forcedAfter (a forced fetchLiveData was invoked while this
\* poll was in flight) and stale (such a later invocation has applied its
\* response).

NoSettle ==
  [fn |-> "", owner |-> "", arg |-> "", ok |-> FALSE, value |-> NoPayload,
   error |-> NoError, contacted |-> <<>>, seen |-> {}, startActive |-> "",
   candidate |-> "", overtaken |-> FALSE, wrote |-> FALSE]

InFlight(c) == calls[c].st # "idle"

\* The candidate the call is waiting on: baseUrl of the current iteration.
BaseOf(rec) == rec.candidateBases[rec.i]

\* Faulty variant: the first candidate of the sweep is promoted, not the one that answered.
PromotedFirst(rec) == rec.candidateBases[1]

\* Faulty variant: the success is not recorded.
PromotedKept(rec) == activeApiBaseUrl

\* Faulty variant: response.url, the address after normalisation, is stored.
PromotedResponseUrl(rec) == "http://localhost:8000/"

\* activeApiBaseUrl = baseUrl
Promoted(rec) == BaseOf(rec)

\* Bookkeeping: the response, or the error body, of the current candidate is in.
Answered(rec) == [rec EXCEPT !.outstanding = @ \ {BaseOf(rec)}]

\* --------------------------------------------------------- the sweep ----
\* Faulty variant: the loop reads activeApiBaseUrl again at each iteration and
\* takes it first if it was not tried.
NextUntriedRereadsActive(rec) ==
  LET untried == {j \in 1..Len(rec.candidateBases) :
                    rec.candidateBases[j] \notin rec.triedBases}
      current == {j \in untried : rec.candidateBases[j] = activeApiBaseUrl}
  IN IF untried = {} THEN 0
     ELSE IF current # {} THEN CHOOSE j \in current : TRUE
     ELSE CHOOSE j \in untried : \A k \in untried : j <= k

\* Faulty variant: after the last candidate the loop starts over.
NextUntriedWraps(rec) ==
  IF rec.i < Len(rec.candidateBases) THEN rec.i + 1 ELSE 1

\* for (const baseUrl of candidateBases) { if (triedBases.has(baseUrl)) continue
\* The index of the next candidate after rec.i that was not tried, 0 if none.
NextUntried(rec) ==
  LET later == {j \in (rec.i + 1)..Len(rec.candidateBases) :
                  rec.candidateBases[j] \notin rec.triedBases}
  IN IF later = {} THEN 0
     ELSE CHOOSE j \in later : \A k \in later : j <= k

\* Faulty variant: the fetches of all untried candidates are issued together.
SweepAllAtOnce(rec) ==
  LET j == NextUntried(rec) IN
  IF j = 0
  THEN [rec EXCEPT !.st = "thrown", !.lastError = ThrownAtEnd(rec.lastError)]
  ELSE [rec EXCEPT !.st = "fetch", !.i = j, !.status = 0,
                   !.triedBases = @ \cup {rec.candidateBases[j]},
                   !.contacted = Append(@, rec.candidateBases[j]),
                   !.outstanding = @ \cup {rec.candidateBases[k] : k \in j..Len(rec.candidateBases)}]

\* The loop from its header to the next await fetch(...), or to the throw after
\* the loop: triedBases.add(baseUrl); fetch(`${baseUrl}${path}`).
Sweep(rec) ==
  LET j == NextUntried(rec) IN
  IF j = 0
  THEN [rec EXCEPT !.st = "thrown", !.lastError = ThrownAtEnd(rec.lastError)]
  ELSE [rec EXCEPT !.st = "fetch", !.i = j, !.status = 0,
                   !.triedBases = @ \cup {rec.candidateBases[j]},
                   !.contacted = Append(@, rec.candidateBases[j]),
                   !.outstanding = @ \cup {rec.candidateBases[j]}]

\* Faulty variant: the first error is kept, later ones are dropped.
CatchKeepsFirst(rec, error) ==
  Sweep([rec EXCEPT !.lastError = IF @.kind = "none" THEN CaughtError(error) ELSE @])

\* Faulty variant: no catch block; the error leaves the loop.
CatchRethrows(rec, error) ==
  [rec EXCEPT !.st = "thrown", !.lastError = CaughtError(error)]

\* catch (error) { lastError = error instanceof Error ? error : new Error(...) }
\* followed by the next iteration.
Catch(rec, error) == Sweep([rec EXCEPT !.lastError = CaughtError(error)])

\* Faulty variant: the body is awaited inside the try block, so the catch block
\* takes the decode failure and the loop goes on.
DecodeFailureCaught(rec) == Catch(rec, DecodeError(BaseOf(rec)))

\* return response.json() / return response.blob(): the promise is returned
\* without await, so its rejection becomes the call's, past the catch block.
DecodeFailure(rec) ==
  [rec EXCEPT !.st = "thrown", !.lastError = DecodeError(BaseOf(rec))]

\* Faulty variant: a non-404 status leaves the loop of apiRequest.
AfterTextThrows(rec, message) ==
  LET responseError == ResponseError(rec.status, message, BaseOf(rec)) IN
  IF rec.status = 404
  THEN Sweep([rec EXCEPT !.lastError = responseError])
  ELSE [rec EXCEPT !.st = "thrown", !.lastError = responseError]

\* apiRequest after `const message = await response.text()`.
AfterText(rec, message) ==
  LET responseError == ResponseError(rec.status, message, BaseOf(rec)) IN
  IF rec.status = 404
  THEN Sweep([rec EXCEPT !.lastError = responseError])
  ELSE Catch(rec, responseError)   \* the throw is inside the try block

\* Faulty variant: a non-404 status leaves the loop of exportAiModelWeights.
ExportAfterTextThrows(rec, message) ==
  LET responseError == ResponseError(rec.status, message, BaseOf(rec)) IN
  IF rec.status = 404
  THEN Sweep([rec EXCEPT !.lastError = responseError])
  ELSE [rec EXCEPT !.st = "thrown", !.lastError = responseError]

\* exportAiModelWeights after `const message = await response.text()`.
ExportAfterText(rec, message) ==
  LET responseError == ResponseError(rec.status, message, BaseOf(rec)) IN
  IF rec.status = 404
  THEN Sweep([rec EXCEPT !.lastError = responseError])
  ELSE Catch(rec, responseError)

\* The call as it enters its loop.  owner is the call site, arg its argument.
NewCall(fn, owner, arg) ==
  [Idle EXCEPT !.fn = fn, !.owner = owner, !.arg = arg,
               !.candidateBases = IF fn = "apiRequest"
                                  THEN CandidateBases(activeApiBaseUrl)
                                  ELSE ExportCandidateBases(activeApiBaseUrl),
               !.startActive = activeApiBaseUrl]

\* How a call that returned or threw settles its promise.
Settlement(rec, value) ==
  [fn |-> rec.fn, owner |-> rec.owner, arg |-> rec.arg, ok |-> rec.st = "returned",
   value |-> IF rec.st = "returned" THEN value ELSE NoPayload,
   error |-> IF rec.st = "returned" THEN NoError ELSE rec.lastError,
   contacted |-> rec.contacted, seen |-> rec.seen,
   startActive |-> rec.startActive,
   candidate |-> IF rec.i = 0 THEN "" ELSE BaseOf(rec),
   overtaken |-> rec.overtaken, wrote |-> rec.wrote]

Done(rec) == rec.st \in {"returned", "thrown"}

\* The lowest free slot.
FreeSlot(c) == ~InFlight(c) /\ \A d \in CallIds : d < c => InFlight(d)

\* ------------------------------------------------- DashboardOverview ----
requestLock == dashboard.requestLock
isScanning == dashboard.isScanning
liveData == dashboard.liveData
decisionError == dashboard.decisionError
runtimeMode == dashboard.runtimeMode
scenario == dashboard.scenario
isModeUpdating == dashboard.isModeUpdating
isScenarioUpdating == dashboard.isScenarioUpdating

\* null
NoMessage == [status |-> 0, text |-> ""]

\* error.message: `API ${status}: ${text}` for a response error, the text alone
\* otherwise.
MessageOf(error) == [status |-> error.status, text |-> error.message]

\* useState initial values, useRef(false).  controlStatus and decision are
\* only rendered and are left out.
InitialDashboard ==
  [liveData |-> NoPayload, decisionError |-> NoMessage,
   isScanning |-> FALSE, runtimeMode |-> "LIVE_EDGE", scenario |-> "normal",
   isModeUpdating |-> FALSE, isScenarioUpdating |-> FALSE,
   requestLock |-> FALSE]

\* Faulty variant: no guard.
ReturnsEarlyNever(d, force) == FALSE

\* Faulty variant: the guard ignores options.force.
ReturnsEarlyIgnoresForce(d, force) == d.requestLock

\* if (requestLock.current && !options?.force) return
ReturnsEarly(d, force) == d.requestLock /\ ~force

\* fetchLiveData up to `await getLiveLaptopDashboard()`.
FetchLiveDataEnter(d, force) ==
  IF ReturnsEarly(d, force)
  THEN d
  ELSE [d EXCEPT !.requestLock = TRUE, !.isScanning = TRUE]

\* What an invocation does at the guard.
Invocation(d, force) ==
  IF ReturnsEarly(d, force) THEN "skipped"
  ELSE IF force THEN "forced" ELSE "unforced"

\* Faulty variant: finally stops the scan indicator but keeps the guard.
FetchLiveDataFinallyKeepsLock(d) == [d EXCEPT !.isScanning = FALSE]

\* finally { setIsScanning(false); requestLock.current = false }
FetchLiveDataFinally(d) == [d EXCEPT !.isScanning = FALSE, !.requestLock = FALSE]

\* Faulty variant: the guard is released at the end of the try block, not in finally.
FetchLiveDataResumeNoFinally(d, s) ==
  IF s.ok
  THEN FetchLiveDataFinally(
         [d EXCEPT !.liveData = s.value,
                   !.runtimeMode = IF s.value.mode # "" THEN s.value.mode ELSE @,
                   !.scenario = IF s.value.scenario # "" THEN s.value.scenario ELSE @,
                   !.decisionError = NoMessage])
  ELSE [d EXCEPT !.decisionError = MessageOf(s.error)]

\* The try block of fetchLiveData from the settlement s of `await
\* getLiveLaptopDashboard()`: the state it leaves and the error it throws.
FetchLiveDataTry(d, s) ==
  IF s.ok
  THEN [d |-> [d EXCEPT !.liveData = s.value,
                        !.runtimeMode = IF s.value.mode # "" THEN s.value.mode ELSE @,
                        !.scenario = IF s.value.scenario # "" THEN s.value.scenario ELSE @,
                        !.decisionError = NoMessage],
        thrown |-> NoError]
  ELSE [d |-> d, thrown |-> s.error]

\* Faulty variant: no catch block.
FetchLiveDataCatchNone(r) == r

\* catch (error) { setDecisionError(error instanceof Error ? error.message : ...) }
FetchLiveDataCatch(r) ==
  IF r.thrown.kind # "none"
  THEN [d |-> [r.d EXCEPT !.decisionError = MessageOf(r.thrown)], thrown |-> NoError]
  ELSE r

\* Faulty variant: the payload's mode and scenario are not applied.
FetchLiveDataResumeKeepsMode(d, s) ==
  FetchLiveDataFinally(
    IF s.ok THEN [d EXCEPT !.liveData = s.value, !.decisionError = NoMessage]
    ELSE [d EXCEPT !.decisionError = MessageOf(s.error)])

\* fetchLiveData from the settlement s of getLiveLaptopDashboard to its end.
FetchLiveDataResume(d, s) ==
  FetchLiveDataFinally(FetchLiveDataCatch(FetchLiveDataTry(d, s)).d)

\* The error that leaves fetchLiveData, NoError if it completes normally.
FetchLiveDataThrows(d, s) == FetchLiveDataCatch(FetchLiveDataTry(d, s)).thrown

\* How the invocation ends.
Completion(d, s) ==
  IF FetchLiveDataThrows(d, s).kind # "none" THEN "threw" ELSE "completed"

\* The call sites that are fetchLiveData invocations: unforced, forced.
Forced == {"refreshMode", "refreshScenario"}
Invocations == {"poll"} \cup Forced

\* Bookkeeping: a forced invocation starts while the polls in cs are in flight.
MarkForced(cs) ==
  [d \in CallIds |-> IF cs[d].owner = "poll"
                     THEN [cs[d] EXCEPT !.sawForced = TRUE, !.forcedAfter = TRUE]
                     ELSE cs[d]]

\* Bookkeeping: a forced fetchLiveData has applied the response s; the polls
\* invoked before it that are still waiting are now behind it.
MarkStale(cs, s) ==
  [d \in CallIds |-> IF cs[d].owner = "poll" /\ cs[d].forcedAfter /\ s.ok
                     THEN [cs[d] EXCEPT !.stale = TRUE]
                     ELSE cs[d]]

\* Call c moves to rec.  A call that returned or threw settles and its awaiting
\* caller runs on: a page call site resumes to its next await or to its end.
Proceed(c, rec, value) ==
  LET s == Settlement(rec, value)
      freed == [calls EXCEPT ![c] = Idle]
  IN
  IF ~Done(rec)
  THEN /\ calls' = [calls EXCEPT ![c] = rec]
       /\ settled' = NoSettle
       /\ dashboard' = dashboard
       /\ invoked' = "none"
  ELSE
    /\ settled' = s
    /\ invoked' = IF s.ok /\ s.owner \in {"setRuntimeMode", "setSimulationScenario"}
                  THEN Invocation(dashboard, TRUE)
                  ELSE IF s.owner \in Invocations THEN Completion(dashboard, s)
                  ELSE "none"
    /\ CASE s.owner = "poll" ->
              \* fetchLiveData() from the mount effect or the interval
              /\ calls' = freed
              /\ dashboard' = FetchLiveDataResume(dashboard, s)
         [] s.owner = "setRuntimeMode" ->
              \* updateRuntimeMode after `await setRuntimeMode(nextMode)`
              IF s.ok
              THEN LET appliedMode == IF s.value.mode # "" THEN s.value.mode ELSE s.arg
                       d1 == [dashboard EXCEPT !.runtimeMode = appliedMode]
                   IN \* await fetchLiveData({ force: true })
                      IF ReturnsEarly(d1, TRUE)
                      THEN /\ calls' = freed
                           /\ dashboard' = [d1 EXCEPT !.isModeUpdating = FALSE]
                      ELSE /\ dashboard' = FetchLiveDataEnter(d1, TRUE)
                           /\ calls' = [MarkForced(calls) EXCEPT ![c] =
                                          Sweep(NewCall("apiRequest", "refreshMode", ""))]
              ELSE /\ calls' = freed
                   /\ dashboard' = [dashboard EXCEPT !.decisionError = MessageOf(s.error),
                                                     !.isModeUpdating = FALSE]
         [] s.owner = "refreshMode" ->
              \* the forced fetchLiveData ends; updateRuntimeMode's catch takes
              \* what it throws, then its finally
              /\ calls' = MarkStale(freed, s)
              /\ dashboard' = [FetchLiveDataResume(dashboard, s)
                                 EXCEPT !.decisionError =
                                          IF FetchLiveDataThrows(dashboard, s).kind # "none"
                                          THEN MessageOf(FetchLiveDataThrows(dashboard, s))
                                          ELSE @,
                                        !.isModeUpdating = FALSE]
         [] s.owner = "setSimulationScenario" ->
              \* triggerScenario after `await setSimulationScenario(...)`
              IF s.ok
              THEN LET appliedScenario ==
                         IF s.value.scenario # "" THEN s.value.scenario ELSE s.arg
                       d1 == [dashboard EXCEPT !.scenario = appliedScenario]
                   IN IF ReturnsEarly(d1, TRUE)
                      THEN /\ calls' = freed
                           /\ dashboard' = [d1 EXCEPT !.isScenarioUpdating = FALSE]
                      ELSE /\ dashboard' = FetchLiveDataEnter(d1, TRUE)
                           /\ calls' = [MarkForced(calls) EXCEPT ![c] =
                                          Sweep(NewCall("apiRequest", "refreshScenario", ""))]
              ELSE /\ calls' = freed
                   /\ dashboard' = [dashboard EXCEPT !.decisionError = MessageOf(s.error),
                                                     !.isScenarioUpdating = FALSE]
         [] s.owner = "refreshScenario" ->
              /\ calls' = MarkStale(freed, s)
              /\ dashboard' = [FetchLiveDataResume(dashboard, s)
                                 EXCEPT !.decisionError =
                                          IF FetchLiveDataThrows(dashboard, s).kind # "none"
                                          THEN MessageOf(FetchLiveDataThrows(dashboard, s))
                                          ELSE @,
                                        !.isScenarioUpdating = FALSE]
         [] OTHER ->
              \* a call site outside the page
              /\ calls' = freed
              /\ dashboard' = dashboard

\* --------------------------------------------------- actions: api.ts ----
\* A call site other than the dashboard page calls apiRequest (retrain, logs,
\* status, ...) or exportAiModelWeights.
StartCall(c, fn) ==
  /\ FreeSlot(c)
  /\ calls' = [calls EXCEPT ![c] = Sweep(NewCall(fn, "site", ""))]
  /\ settled' = NoSettle
  /\ invoked' = "none"
  /\ UNCHANGED <<helper, PRIMARY_API_BASE_URL, activeApiBaseUrl, dashboard>>

\* await fetch(...) resolves with a response.
FetchResolve(c, status) ==
  /\ calls[c].st = "fetch"
  /\ IF Ok(status)
     THEN \* activeApiBaseUrl = baseUrl; return response.json() / response.blob()
          /\ activeApiBaseUrl' = Promoted(calls[c])
          /\ calls' = [d \in CallIds |->
                         IF d = c
                         THEN [Answered(calls[c]) EXCEPT !.st = "decode", !.status = status,
                                                         !.wrote = TRUE]
                         ELSE IF calls[d].st = "decode"
                                 /\ BaseOf(calls[d]) # Promoted(calls[c])
                              THEN [calls[d] EXCEPT !.overtaken = TRUE]
                              ELSE calls[d]]
     ELSE \* const message = await response.text()
          /\ activeApiBaseUrl' = activeApiBaseUrl
          /\ calls' = [calls EXCEPT ![c].st = "text", ![c].status = status,
                         ![c].seen = @ \cup {IF status = 404 THEN "notfound" ELSE "apperror"}]
  /\ settled' = NoSettle
  /\ invoked' = "none"
  /\ UNCHANGED <<helper, PRIMARY_API_BASE_URL, dashboard>>

\* await fetch(...) rejects.
FetchReject(c) ==
  /\ calls[c].st = "fetch"
  /\ Proceed(c, Catch(Answered(calls[c]), TransportError(BaseOf(calls[c]))), NoPayload)
  /\ UNCHANGED <<helper, PRIMARY_API_BASE_URL, activeApiBaseUrl>>

\* await response.text() resolves.
TextResolve(c, message) ==
  /\ calls[c].st = "text"
  /\ message \in BodyTextsOf(calls[c].status)
  /\ Proceed(c, IF calls[c].fn = "apiRequest" THEN AfterText(Answered(calls[c]), message)
                ELSE ExportAfterText(Answered(calls[c]), message), NoPayload)
  /\ UNCHANGED <<helper, PRIMARY_API_BASE_URL, activeApiBaseUrl>>

\* await response.text() rejects: the connection broke while reading the body.
TextReject(c) ==
  /\ calls[c].st = "text"
  /\ Proceed(c, Catch(Answered(calls[c]), TransportError(BaseOf(calls[c]))), NoPayload)
  /\ UNCHANGED <<helper, PRIMARY_API_BASE_URL, activeApiBaseUrl>>

\* The bodies the endpoint of a call may answer with.
BodiesFor(rec) == IF rec.owner = "site" THEN {PlainBody} ELSE ResponseBodies

\* The promise of response.json() / response.blob() resolves.
DecodeResolve(c, body) ==
  /\ calls[c].st = "decode"
  /\ body \in BodiesFor(calls[c])
  /\ Proceed(c, [calls[c] EXCEPT !.st = "returned"],
             IF calls[c].fn = "apiRequest" THEN JsonBody(BaseOf(calls[c]), body)
             ELSE BlobBody(BaseOf(calls[c]), body))
  /\ UNCHANGED <<helper, PRIMARY_API_BASE_URL, activeApiBaseUrl>>

\* The promise of response.json() / response.blob() rejects.  It was returned
\* without await, so the catch block does not see the rejection.
DecodeReject(c) ==
  /\ calls[c].st = "decode"
  /\ Proceed(c, DecodeFailure(calls[c]), NoPayload)
  /\ UNCHANGED <<helper, PRIMARY_API_BASE_URL, activeApiBaseUrl>>

\* -------------------------------------------------- actions: page.tsx ----
\* fetchLiveData() without options: the mount effect, or a tick of
\* setInterval(fetchLiveData, 5000).
Tick(c) ==
  /\ IF ReturnsEarly(dashboard, FALSE)
     THEN /\ c = 1
          /\ calls' = calls
     ELSE /\ FreeSlot(c)
          /\ calls' = [calls EXCEPT ![c] =
                         [Sweep(NewCall("apiRequest", "poll", "")) EXCEPT !.sawForced =
                            \E d \in CallIds :
                              \/ calls[d].owner \in Forced
                              \/ calls[d].owner = "poll" /\ calls[d].sawForced]]
  /\ dashboard' = FetchLiveDataEnter(dashboard, FALSE)
  /\ invoked' = Invocation(dashboard, FALSE)
  /\ settled' = NoSettle
  /\ UNCHANGED <<helper, PRIMARY_API_BASE_URL, activeApiBaseUrl>>

\* updateRuntimeMode(nextMode) up to `await setRuntimeMode(nextMode)`.
UpdateRuntimeMode(c, nextMode) ==
  /\ ~dashboard.isModeUpdating            \* if (isModeUpdating) return
  /\ FreeSlot(c)
  /\ dashboard' = [dashboard EXCEPT !.isModeUpdating = TRUE,
                                    !.runtimeMode = nextMode]
  /\ calls' = [calls EXCEPT ![c] = Sweep(NewCall("apiRequest", "setRuntimeMode", nextMode))]
  /\ invoked' = "none"
  /\ settled' = NoSettle
  /\ UNCHANGED <<helper, PRIMARY_API_BASE_URL, activeApiBaseUrl>>

\* triggerScenario(nextScenario) up to `await setSimulationScenario(...)`.
TriggerScenario(c, nextScenario) ==
  /\ ~dashboard.isScenarioUpdating        \* if (isScenarioUpdating) return
  /\ FreeSlot(c)
  /\ dashboard' = [dashboard EXCEPT !.isScenarioUpdating = TRUE,
                                    !.scenario = nextScenario]
  /\ calls' = [calls EXCEPT ![c] =
                 Sweep(NewCall("apiRequest", "setSimulationScenario", nextScenario))]
  /\ invoked' = "none"
  /\ settled' = NoSettle
  /\ UNCHANGED <<helper, PRIMARY_API_BASE_URL, activeApiBaseUrl>>

\* --------------------------------------------------- helpers of api.ts ----
\* JavaScript values as far as the helpers tell them apart.  A number is an
\* integer n; each helper's comment gives its unit.  fields are the own
\* properties of an object.
Undefined == [tag |-> "undefined", n |-> 0, s |-> "", fields |-> <<>>]
Null == [tag |-> "null", n |-> 0, s |-> "", fields |-> <<>>]
NaN == [tag |-> "nan", n |-> 0, s |-> "", fields |-> <<>>]
Num(n) == [tag |-> "number", n |-> n, s |-> "", fields |-> <<>>]
Str(s) == [tag |-> "string", n |-> 0, s |-> s, fields |-> <<>>]
Obj(fields) == [tag |-> "object", n |-> 0, s |-> "", fields |-> fields]
\* A function object, such as the methods Object.prototype hands down.
Func(name) == [tag |-> "function", n |-> 0, s |-> name, fields |-> <<>>]
\* The TypeError a property read of undefined or null throws.
Thrown == [tag |-> "throw", n |-> 0, s |-> "TypeError", fields |-> <<>>]

\* Properties every object literal inherits from Object.prototype.
ObjectPrototype ==
  [constructor |-> Func("Object"), toString |-> Func("toString"),
   valueOf |-> Func("valueOf"), hasOwnProperty |-> Func("hasOwnProperty"),
   __proto__ |-> Obj(<<>>)]

\* obj[key] / obj.key: own property, else the prototype's, else undefined.
Get(obj, key) ==
  IF obj.tag \in {"undefined", "null", "throw"} THEN Thrown
  ELSE IF obj.tag = "object" /\ key \in DOMAIN obj.fields THEN obj.fields[key]
  ELSE IF obj.tag = "object" /\ key \in DOMAIN ObjectPrototype THEN ObjectPrototype[key]
  ELSE Undefined

\* value ?? fallback
Coalesce(value, fallback) ==
  IF value.tag \in {"undefined", "null"} THEN fallback ELSE value

MathMax(a, b) == IF a >= b THEN a ELSE b
MathMin(a, b) == IF a <= b THEN a ELSE b

\* Math.round of a number given in thousandths, in units: halves go up.
MathRound(m) == (m + 500) \div 1000

\* Number(x.toFixed(2)) of a number in thousandths, in thousandths: the nearest
\* hundredth.  The inputs of the model have no third decimal of 5, where the
\* binary representation decides.
ToFixed2(m) ==
  IF m >= 0 THEN ((m + 5) \div 10) * 10 ELSE 0 - (((0 - m) + 5) \div 10) * 10

\* Number(value): the strings of the model are not numeric.
ToNumber(value) ==
  CASE value.tag = "number" -> value
    [] value.tag = "null" -> Num(0)
    [] OTHER -> NaN

\* toSafeNumber(value, fallback = 0), in the unit of value.
toSafeNumber(value, fallback) ==
  LET parsed == ToNumber(value) IN
  IF parsed.tag = "number" THEN parsed.n ELSE fallback

\* Timestamps of the model and the local time toLocaleTimeString gives them;
\* any other string is an invalid date.
DisplayTimes == [t \in {"2026-01-01T10:00:00"} |-> "10:00:00"]

\* toDisplayTime(timestamp), `now` being the formatted current time.
toDisplayTime(timestamp, now) ==
  IF timestamp.tag \in {"undefined", "null"}
     \/ (timestamp.tag = "string" /\ timestamp.s = "") THEN now
  ELSE IF timestamp.tag = "string" /\ timestamp.s \in DOMAIN DisplayTimes
       THEN DisplayTimes[timestamp.s]
  ELSE now

\* String(value) of a string or of undefined.
ToStr(value) ==
  CASE value.tag = "string" -> value.s
    [] value.tag = "number" -> ToString(value.n)
    [] OTHER -> value.tag

\* Faulty variant: no default for an absent object.
OrEmptyObjectMissing(value) == value

\* value ?? {}
OrEmptyObject(value) == Coalesce(value, Obj(<<>>))

\* Faulty variant: no default for an absent rl_action.
RlActionOfRaw(decision) == ToStr(Get(decision, "rl_action"))

\* String(decision.rl_action ?? "unknown_action")
RlActionOf(decision) == ToStr(Coalesce(Get(decision, "rl_action"), Str("unknown_action")))

\* mapDecisionForUi(response); the numbers of response are in thousandths, and
\* so are the numbers of the result.
mapDecisionForUi(response, now) ==
  LET decision == OrEmptyObject(Get(response, "decision"))
      optimizedDecision == OrEmptyObject(Get(decision, "optimized_decision"))
      reduction == Get(optimizedDecision, "recommended_reduction")
      costSaved == Get(optimizedDecision, "cost_saving_estimate")
      stabilityScore == Get(optimizedDecision, "stability_score")
      timestamp == Get(decision, "timestamp")
  IN IF "throw" \in {decision.tag, optimizedDecision.tag, reduction.tag, costSaved.tag,
                     stabilityScore.tag, timestamp.tag}
     THEN [threw |-> TRUE, rlAction |-> "", reduction |-> 0, costSaved |-> 0,
           stabilityScore |-> 0, timestamp |-> ""]
     ELSE [threw |-> FALSE,
           rlAction |-> RlActionOf(decision),
           reduction |-> MathMax(0, MathRound(toSafeNumber(reduction, 0))) * 1000,
           costSaved |-> ToFixed2(toSafeNumber(costSaved, 0)),
           stabilityScore |-> ToFixed2(toSafeNumber(stabilityScore, 0)),
           timestamp |-> toDisplayTime(timestamp, now)]

\* const locationToBuildingId: Record<string, number> = { Mumbai: 1, ... }
locationToBuildingId ==
  Obj([Mumbai |-> Num(1), Delhi |-> Num(2), Bangalore |-> Num(3),
       Chennai |-> Num(4), Kolkata |-> Num(5), Hyderabad |-> Num(6)])

\* toDecisionPayload(payload); gridLoad is in hundredths of a percent, now is
\* the clock: [day, hour].
toDecisionPayload(payload, now) ==
  LET occupancy == MathMax(1, (payload.gridLoad + 5) \div 10) IN
  [building_id |-> Coalesce(Get(locationToBuildingId, payload.location), Num(0)),
   current_load |-> Num(payload.energy),
   energy_usage_kwh |-> Num(payload.energy),
   temperature |-> Num(payload.temperature),
   humidity |-> Num(50),
   occupancy |-> Num(occupancy),
   day_of_week |-> Num(now.day),
   hour |-> Num(now.hour),
   grid_load |-> Num(payload.gridLoad),
   location |-> Str(payload.location),
   state |-> Str(IF payload.gridLoad >= 8500 THEN "high_load" ELSE "normal")]

\* JSON.stringify of a property value: a function-valued or undefined property
\* is left out of the text, an object without own properties is {}.
JsonStringify(value) ==
  CASE value.tag = "number" -> [present |-> TRUE, text |-> ToString(value.n)]
    [] value.tag = "string" -> [present |-> TRUE, text |-> value.s]
    [] value.tag = "null" -> [present |-> TRUE, text |-> "null"]
    [] value.tag = "object" -> [present |-> TRUE, text |-> "{}"]
    [] OTHER -> [present |-> FALSE, text |-> ""]

\* Faulty variant: no lower limit.
ClampLinesNoFloor(lines) == MathMin(lines, 1000)

\* Math.max(20, Math.min(lines, 1000))
ClampLines(lines) == MathMax(20, MathMin(lines, 1000))

\* The arguments the helpers are called with in the model.
LinesArgs == ((0 - 3)..25) \cup (995..1005) \cup {150, 5000}
SourceArgs == {"application", "errors"}

Locations ==
  {"Mumbai", "Delhi", "Bangalore", "Chennai", "Kolkata", "Hyderabad",
   "Pune", "mumbai", "", "constructor", "toString", "__proto__"}
GridLoads == {0, 4, 5000, 8499, 8500, 10000}
Clocks == {[day |-> 0, hour |-> 0], [day |-> 6, hour |-> 23]}
TelemetryInputs ==
  [energy : {120}, temperature : {25}, gridLoad : GridLoads, location : Locations]

OptimizedDecisions ==
  {Undefined, Null}
  \cup {Obj([recommended_reduction |-> r, cost_saving_estimate |-> k, stability_score |-> t]) :
          r \in {Undefined, Num(12500), Num(0 - 3200), Str("n/a")},
          k \in {Undefined, Num(1234)},
          t \in {Undefined, Null, Num(987)}}
Decisions ==
  {Undefined, Null}
  \cup {Obj([timestamp |-> ts, rl_action |-> a, optimized_decision |-> o]) :
          ts \in {Undefined, Str("2026-01-01T10:00:00"), Str("soon")},
          a \in {Undefined, Null, Str("reduce_load")},
          o \in OptimizedDecisions}
\* An absent property of the JSON is a property whose value is undefined.
Responses == {Obj([decision |-> d]) : d \in Decisions}

NoHelper == [fn |-> "", ran |-> FALSE, args |-> <<>>, built |-> <<>>]

HelperCalls ==
  {[fn |-> "getAiModelLogs", ran |-> FALSE, args |-> [source |-> src, lines |-> n],
    built |-> <<>>] : src \in SourceArgs, n \in LinesArgs}
  \cup {[fn |-> "generateDecision", ran |-> FALSE, args |-> [payload |-> t, now |-> k],
         built |-> <<>>] : t \in TelemetryInputs, k \in Clocks}
  \cup {[fn |-> "mapDecisionForUi", ran |-> FALSE, args |-> [response |-> r, now |-> "12:34:56"],
         built |-> <<>>] : r \in Responses}

\* getAiModelLogs(source, lines) up to the fetch of its apiRequest.
GetAiModelLogs(c) ==
  /\ helper.fn = "getAiModelLogs" /\ ~helper.ran
  /\ FreeSlot(c)
  /\ helper' = [helper EXCEPT !.ran = TRUE,
                  !.built = [path |-> "/monitoring/ai-models/logs",
                             source |-> helper.args.source,
                             lines |-> ToString(ClampLines(helper.args.lines))]]
  /\ calls' = [calls EXCEPT ![c] = Sweep(NewCall("apiRequest", "site", ""))]
  /\ settled' = NoSettle
  /\ invoked' = "none"
  /\ UNCHANGED <<PRIMARY_API_BASE_URL, activeApiBaseUrl, dashboard>>

\* generateDecision(payload) up to the fetch of its apiRequest.
GenerateDecision(c) ==
  /\ helper.fn = "generateDecision" /\ ~helper.ran
  /\ FreeSlot(c)
  /\ LET payload == toDecisionPayload(helper.args.payload, helper.args.now) IN
     helper' = [helper EXCEPT !.ran = TRUE,
                  !.built = [path |-> "/decision/generate", payload |-> payload,
                             body |-> [k \in DOMAIN payload |-> JsonStringify(payload[k])]]]
  /\ calls' = [calls EXCEPT ![c] = Sweep(NewCall("apiRequest", "site", ""))]
  /\ settled' = NoSettle
  /\ invoked' = "none"
  /\ UNCHANGED <<PRIMARY_API_BASE_URL, activeApiBaseUrl, dashboard>>

\* mapDecisionForUi(response)
MapDecisionForUi ==
  /\ helper.fn = "mapDecisionForUi" /\ ~helper.ran
  /\ helper' = [helper EXCEPT !.ran = TRUE,
                  !.built = mapDecisionForUi(helper.args.response, helper.args.now)]
  /\ settled' = NoSettle
  /\ invoked' = "none"
  /\ UNCHANGED <<PRIMARY_API_BASE_URL, activeApiBaseUrl, calls, dashboard>>

\* ------------------------------------------------------ specifications ----
Init ==
  /\ PRIMARY_API_BASE_URL \in PrimaryChoices
  /\ activeApiBaseUrl = PRIMARY_API_BASE_URL
  /\ calls = [c \in CallIds |-> Idle]
  /\ settled = NoSettle
  /\ dashboard = InitialDashboard
  /\ invoked = "none"
  /\ helper = NoHelper

\* The steps of the calls in flight.
CallStep ==
  \/ \E c \in CallIds, status \in Statuses : FetchResolve(c, status)
  \/ \E c \in CallIds : FetchReject(c)
  \/ \E c \in CallIds, message \in BodyTexts : TextResolve(c, message)
  \/ \E c \in CallIds : TextReject(c)
  \/ \E c \in CallIds, body \in ResponseBodies : DecodeResolve(c, body)
  \/ \E c \in CallIds : DecodeReject(c)

\* The API client under call sites outside the dashboard page.
Next ==
  \/ \E c \in CallIds, fn \in {"apiRequest", "exportAiModelWeights"} : StartCall(c, fn)
  \/ CallStep

Spec == Init /\ [][Next]_vars

\* In the page's specification the backend listens on the primary base URL
\* only: that host answers 200 or is unreachable, the fallbacks are unreachable.
BackendUp(c) ==
  /\ InFlight(c)
  /\ BaseOf(calls[c]) = PRIMARY_API_BASE_URL
  /\ FetchResolve(c, 200)

\* One caller that awaits each call before it makes the next.  Every pending
\* fetch, body read and decode of a call settles in the end.
AwaitedNext ==
  \/ \E fn \in {"apiRequest", "exportAiModelWeights"} :
       (\A d \in CallIds : ~InFlight(d)) /\ StartCall(1, fn)
  \/ CallStep

Settling(c) ==
  \/ \E status \in Statuses : FetchResolve(c, status)
  \/ FetchReject(c)
  \/ \E message \in BodyTexts : TextResolve(c, message)
  \/ TextReject(c)
  \/ \E body \in ResponseBodies : DecodeResolve(c, body)
  \/ DecodeReject(c)

AwaitedSpec == Init /\ [][AwaitedNext]_vars /\ \A c \in CallIds : WF_vars(Settling(c))

\* The dashboard page: its timer, its controls and the calls they make.
PageNext ==
  \/ \E c \in CallIds : Tick(c)
  \/ \E c \in CallIds, nextMode \in PickedModes : UpdateRuntimeMode(c, nextMode)
  \/ \E c \in CallIds, nextScenario \in PickedScenarios : TriggerScenario(c, nextScenario)
  \/ \E c \in CallIds : BackendUp(c)
  \/ \E c \in CallIds : FetchReject(c)
  \/ \E c \in CallIds, body \in ResponseBodies : DecodeResolve(c, body)
  \/ \E c \in CallIds : DecodeReject(c)

PageSpec == Init /\ [][PageNext]_vars

\* The helpers of api.ts, each called once with the arguments Init draws.
HelperInit ==
  /\ PRIMARY_API_BASE_URL \in PrimaryChoices
  /\ activeApiBaseUrl = PRIMARY_API_BASE_URL
  /\ calls = [c \in CallIds |-> Idle]
  /\ settled = NoSettle
  /\ dashboard = InitialDashboard
  /\ invoked = "none"
  /\ helper \in HelperCalls

HelperNext ==
  \/ \E c \in CallIds : GetAiModelLogs(c)
  \/ \E c \in CallIds : GenerateDecision(c)
  \/ MapDecisionForUi

HelperSpec == HelperInit /\ [][HelperNext]_vars


\* ---------------------------------------------------------- properties ----
Settled == settled.fn # ""
Last(seq) == seq[Len(seq)]

RECURSIVE Without(_, _)
Without(seq, x) ==
  IF seq = <<>> THEN <<>>
  ELSE IF Head(seq) = x THEN Without(Tail(seq), x)
       ELSE <<Head(seq)>> \o Without(Tail(seq), x)

IsPrefix(p, q) == Len(p) <= Len(q) /\ \A k \in 1..Len(p) : p[k] = q[k]
NoRepeat(seq) == \A j, k \in 1..Len(seq) : j # k => seq[j] # seq[k]

\* The order the configuration and the active base URL call for.
ActiveFirst(active) == <<active>> \o Without(API_FALLBACK_CANDIDATES, active)

\* C1: a candidate's non-success status other than 404 fails the call at once:
\* no call is still in flight after it built the error of such a response.
C1_NonNotFoundStatusFailsAtOnce ==
  \A c \in CallIds :
    InFlight(c) => ~(calls[c].lastError.kind = "api" /\ calls[c].lastError.status # 404)

\* C2: the candidates an apiRequest call has contacted are, in order, a prefix
\* of the active base URL at call start followed by the other configured
\* candidates in configured order, and none is contacted twice.
C2_ActiveFirstOrder ==
  /\ \A c \in CallIds :
       calls[c].fn = "apiRequest" =>
         /\ IsPrefix(calls[c].contacted, ActiveFirst(calls[c].startActive))
         /\ NoRepeat(calls[c].contacted)
  /\ settled.fn = "apiRequest" =>
       /\ IsPrefix(settled.contacted, ActiveFirst(settled.startActive))
       /\ NoRepeat(settled.contacted)

\* [A, B, C] with active = B was swept as B, A, C.
C2_Witness ==
  /\ settled.fn = "apiRequest"
  /\ Len(API_FALLBACK_CANDIDATES) = 3
  /\ settled.startActive = API_FALLBACK_CANDIDATES[2]
  /\ settled.contacted = <<API_FALLBACK_CANDIDATES[2], API_FALLBACK_CANDIDATES[1],
                           API_FALLBACK_CANDIDATES[3]>>

\* C3 as stated: a call that got a 404 and then a success status returns the
\* body of the candidate that succeeded, and the active base URL equals that
\* candidate when the call completes.
C3_ActiveIsCandidateAtCompletion ==
  (Settled /\ settled.ok /\ "notfound" \in settled.seen) =>
    /\ settled.value.from = settled.candidate
    /\ activeApiBaseUrl = settled.candidate

\* C3 amended: such a call returns the body of the candidate that succeeded,
\* decoded as JSON (apiRequest) or as a blob, and when it completes the active
\* base URL equals that candidate unless another call has meanwhile received
\* a success status from a different candidate.
C3_ReturnsLaterCandidatesBody ==
  (Settled /\ settled.ok /\ "notfound" \in settled.seen) =>
    /\ settled.value.from = settled.candidate
    /\ settled.candidate = Last(settled.contacted)
    /\ settled.value.decoded = IF settled.fn = "apiRequest" THEN "json" ELSE "blob"
    /\ (activeApiBaseUrl = settled.candidate \/ settled.overtaken)

\* B answered 404, A answered 200: the call returned A's body and active is A.
C3_Witness ==
  /\ Settled /\ settled.ok /\ settled.seen = {"notfound"}
  /\ Len(settled.contacted) = 2
  /\ settled.value.from = settled.contacted[2]
  /\ activeApiBaseUrl = settled.contacted[2]
  /\ ~settled.overtaken

\* C4: a call whose candidates all answered 404 or failed at the transport
\* level rejects with the error of the last candidate it contacted.
C4_RejectsWithLastError ==
  (Settled /\ ~settled.ok /\ settled.error.kind # "decode"
     /\ "apperror" \notin settled.seen) =>
    /\ settled.error.kind \in {"api", "transport"}
    /\ settled.error.kind = "api" => settled.error.status = 404
    /\ settled.error.base = Last(settled.contacted)
    /\ Range(settled.contacted) = Range(API_FALLBACK_CANDIDATES)

\* Three candidates, the first two unreachable, the last answers 404.
C4_Witness ==
  /\ Settled /\ ~settled.ok
  /\ Len(settled.contacted) = 3
  /\ settled.seen = {"notfound"}
  /\ settled.error = ResponseError(404, "Not Found", settled.contacted[3])

\* C5: a call fetches no candidate twice and at most as many candidates as
\* are configured, and, every fetch and body read settling, it returns or
\* rejects.
C5_SingleSweepTerminates ==
  /\ [](\A c \in CallIds :
          /\ NoRepeat(calls[c].contacted)
          /\ Len(calls[c].contacted) <= Len(API_FALLBACK_CANDIDATES))
  /\ [](Settled => /\ NoRepeat(settled.contacted)
                   /\ Len(settled.contacted) <= Len(API_FALLBACK_CANDIDATES))
  /\ \A c \in CallIds : InFlight(c) ~> (~InFlight(c) /\ Settled)

\* A call that rejected after it fetched each of three candidates once.
C5_Witness ==
  /\ Settled /\ ~settled.ok
  /\ Len(settled.contacted) = 3
  /\ \A c \in CallIds : ~InFlight(c)

\* C6: when the fetch to a candidate rejects, the error is recorded and the
\* next candidate, if there is one, is fetched; the call rejects only when
\* that candidate was the last one, and then with the recorded error.
C6_TransportFailureContinues ==
  [][\A c \in CallIds :
       FetchReject(c) =>
         IF calls[c].i < Len(calls[c].candidateBases)
         THEN /\ calls'[c].st = "fetch"
              /\ calls'[c].lastError = TransportError(BaseOf(calls[c]))
              /\ calls'[c].contacted =
                   Append(calls[c].contacted, calls[c].candidateBases[calls[c].i + 1])
              /\ settled' = NoSettle
         ELSE /\ ~settled'.ok
              /\ settled'.error = TransportError(BaseOf(calls[c]))]_vars

\* A call that went on to its second candidate after a transport failure.
C6_Witness ==
  \E c \in CallIds :
    /\ calls[c].st = "fetch" /\ calls[c].i = 2
    /\ calls[c].lastError = TransportError(calls[c].candidateBases[1])

\* C7: a tick while an unforced poll is in flight, no forced invocation being
\* involved, returns at the guard: it issues no call and leaves requestLock,
\* isScanning, liveData and decisionError as they are.
C7_OverlappingPollIsSkipped ==
  [][((\E c \in CallIds : Tick(c))
        /\ \E d \in CallIds : calls[d].owner = "poll" /\ ~calls[d].sawForced) =>
       /\ invoked' = "skipped"
       /\ calls' = calls
       /\ requestLock' = requestLock
       /\ isScanning' = isScanning
       /\ liveData' = liveData
       /\ decisionError' = decisionError]_vars

\* A tick was skipped while one unforced poll, and nothing else, is in flight.
C7_Witness ==
  /\ invoked = "skipped"
  /\ \E d \in CallIds :
       /\ calls[d].owner = "poll" /\ ~calls[d].sawForced
       /\ \A e \in CallIds \ {d} : ~InFlight(e)

\* C8: two fetchLiveData invocations are in flight together only if one of them
\* was forced.
C8_NoTwoUnforcedInFlight ==
  \A c, d \in CallIds :
    (c # d /\ calls[c].owner \in Invocations /\ calls[d].owner \in Invocations) =>
      (calls[c].owner \in Forced \/ calls[d].owner \in Forced)

\* C9: the forced fetchLiveData that follows a successful mode or scenario
\* change passes the guard and issues its fetch, whatever requestLock is.
C9_ForcedInvocationFetches ==
  (Settled /\ settled.ok /\ settled.owner \in {"setRuntimeMode", "setSimulationScenario"}) =>
    /\ invoked = "forced"
    /\ \E c \in CallIds :
         /\ calls[c].owner =
              (IF settled.owner = "setRuntimeMode" THEN "refreshMode" ELSE "refreshScenario")
         /\ calls[c].st = "fetch"
         /\ Len(calls[c].contacted) = 1

\* The forced invocation issued its fetch while an unforced poll is in flight.
C9_Witness ==
  /\ Settled /\ settled.ok /\ settled.owner = "setRuntimeMode"
  /\ invoked = "forced"
  /\ \E c, d \in CallIds :
       /\ calls[c].owner = "refreshMode" /\ calls[c].st = "fetch"
       /\ calls[d].owner = "poll"

\* C10: when a fetchLiveData invocation that passed the guard completes, with
\* the dashboard request resolved or rejected, requestLock and isScanning are
\* false.
C10_GuardReleasedOnExit ==
  (Settled /\ settled.owner \in Invocations) => (~requestLock /\ ~isScanning)

\* An invocation whose dashboard request failed has released the guard.
C10_Witness ==
  /\ Settled /\ ~settled.ok /\ settled.owner = "poll"
  /\ ~requestLock /\ ~isScanning
  /\ decisionError # NoMessage

\* C11: a fetchLiveData invocation whose dashboard request failed completes
\* normally, nothing is thrown to its caller, with decisionError the message of
\* the error; one whose request succeeded leaves decisionError null.
C11_FailureIsSurfacedNotThrown ==
  (Settled /\ settled.owner \in Invocations) =>
    /\ invoked = "completed"
    /\ IF settled.ok
       THEN decisionError = NoMessage
       ELSE /\ decisionError = MessageOf(settled.error)
            /\ decisionError # NoMessage

\* The forced invocation's request failed at decoding: the invocation completed
\* and shows that message.
C11_Witness ==
  /\ Settled /\ ~settled.ok /\ settled.owner = "refreshMode"
  /\ settled.error.kind = "decode"
  /\ invoked = "completed"
  /\ decisionError = MessageOf(settled.error)

C13_ForcedRefetchAfterMutation ==
  /\ (Settled /\ settled.ok /\ settled.owner \in {"setRuntimeMode", "setSimulationScenario"}) =>
       /\ invoked = "forced"
       /\ requestLock /\ isScanning
       /\ \E c \in CallIds :
            /\ calls[c].owner =
                 (IF settled.owner = "setRuntimeMode" THEN "refreshMode" ELSE "refreshScenario")
            /\ calls[c].st = "fetch"
  /\ (Settled /\ settled.ok /\ settled.owner \in Forced) =>
       /\ liveData = settled.value
       /\ settled.value.mode # "" => runtimeMode = settled.value.mode
       /\ settled.value.scenario # "" => scenario = settled.value.scenario
  /\ (Settled /\ ~settled.ok /\ settled.owner \in {"setRuntimeMode", "setSimulationScenario"}) =>
       /\ invoked = "none"
       /\ decisionError = MessageOf(settled.error)
       /\ \A c \in CallIds :
            calls[c].owner #
              (IF settled.owner = "setRuntimeMode" THEN "refreshMode" ELSE "refreshScenario")

\* The forced fetchLiveData after a scenario change, issued while a poll was in
\* flight, succeeded: the page shows the payload's scenario, not the picked one.
C13_Witness ==
  /\ Settled /\ settled.ok /\ settled.owner = "refreshScenario"
  /\ settled.value.scenario = "normal" /\ scenario = "normal"
  /\ \E d \in CallIds : calls[d].owner = "poll" /\ calls[d].sawForced

\* C14: getAiModelLogs sends, as the lines query parameter, the decimal text of
\* lines clamped into [20, 1000]: 20 below 20, 1000 above 1000, lines itself in
\* between.
C14_LinesClamped ==
  (helper.fn = "getAiModelLogs" /\ helper.ran) =>
    /\ helper.built.lines =
         ToString(IF helper.args.lines < 20 THEN 20
                  ELSE IF helper.args.lines > 1000 THEN 1000
                  ELSE helper.args.lines)
    /\ helper.built.source = helper.args.source
    /\ \E c \in CallIds : calls[c].st = "fetch"

\* getAiModelLogs("application", 5) sent lines=20.
C14_Witness ==
  /\ helper.fn = "getAiModelLogs" /\ helper.ran
  /\ helper.args.lines = 5
  /\ helper.built.lines = "20"

\* The decision and the optimized_decision of a response, absent when the
\* response has none.
DecisionOf(response) ==
  IF response.fields.decision.tag = "object" THEN response.fields.decision ELSE Undefined
OptimizedOf(response) ==
  IF DecisionOf(response).tag = "object"
     /\ DecisionOf(response).fields.optimized_decision.tag = "object"
  THEN DecisionOf(response).fields.optimized_decision ELSE Undefined

\* C15: mapDecisionForUi does not throw; for a response without decision or
\* without optimized_decision it returns reduction, costSaved and stabilityScore
\* 0, and without rl_action it returns rlAction "unknown_action".
C15_AbsentDecisionDefaults ==
  (helper.fn = "mapDecisionForUi" /\ helper.ran) =>
    /\ ~helper.built.threw
    /\ OptimizedOf(helper.args.response).tag # "object" =>
         /\ helper.built.reduction = 0
         /\ helper.built.costSaved = 0
         /\ helper.built.stabilityScore = 0
    /\ (DecisionOf(helper.args.response).tag # "object"
          \/ DecisionOf(helper.args.response).fields.rl_action.tag \in {"undefined", "null"}) =>
         helper.built.rlAction = "unknown_action"

\* A decision with an rl_action and a timestamp but no optimized_decision.
C15_Witness ==
  /\ helper.fn = "mapDecisionForUi" /\ helper.ran
  /\ DecisionOf(helper.args.response).tag = "object"
  /\ OptimizedOf(helper.args.response).tag = "undefined"
  /\ helper.built.rlAction = "reduce_load"
  /\ helper.built.reduction = 0 /\ helper.built.costSaved = 0
  /\ helper.built.stabilityScore = 0

\* The identifier of a location name, 0 for a name that is not in the list.
BuildingIdOf(location) ==
  CASE location = "Mumbai" -> 1
    [] location = "Delhi" -> 2
    [] location = "Bangalore" -> 3
    [] location = "Chennai" -> 4
    [] location = "Kolkata" -> 5
    [] location = "Hyderabad" -> 6
    [] OTHER -> 0

\* C16: toDecisionPayload gives each of the six known location names its
\* identifier 1..6 and every other location string building_id 0, which
\* generateDecision sends in the request body.
C16_UnknownLocationIsZero ==
  (helper.fn = "generateDecision" /\ helper.ran) =>
    /\ helper.built.payload.building_id.tag = "number"
    /\ helper.built.payload.building_id.n = BuildingIdOf(helper.args.payload.location)
    /\ helper.built.body.building_id.present
    /\ helper.built.body.building_id.text =
         ToString(BuildingIdOf(helper.args.payload.location))

\* C17: activeApiBaseUrl starts as the primary candidate; it changes only when a
\* success status arrives and is then the candidate that answered, so it always
\* is the candidate of the latest successful response; and a call that starts
\* contacts it first.
C17_ActiveTracksLastSuccess ==
  /\ activeApiBaseUrl = PRIMARY_API_BASE_URL
  /\ [][/\ \A c \in CallIds, status \in Statuses :
             (Ok(status) /\ FetchResolve(c, status)) =>
               activeApiBaseUrl' = Last(calls[c].contacted)
        /\ (~ \E c \in CallIds, status \in Statuses : Ok(status) /\ FetchResolve(c, status)) =>
             activeApiBaseUrl' = activeApiBaseUrl
        /\ \A c \in CallIds, fn \in {"apiRequest", "exportAiModelWeights"} :
             StartCall(c, fn) =>
               /\ calls'[c].st = "fetch"
               /\ calls'[c].contacted = <<activeApiBaseUrl>>]_vars

\* After a success on a fallback, a new call fetches that fallback first.
C17_Witness ==
  /\ activeApiBaseUrl # PRIMARY_API_BASE_URL
  /\ \E c \in CallIds :
       /\ calls[c].st = "fetch"
       /\ calls[c].contacted = <<activeApiBaseUrl>>
       /\ calls[c].startActive = activeApiBaseUrl

\* C18: an apiRequest call has at most one fetch outstanding, the one to the
\* candidate it contacted last, and it issues the fetch to the next candidate
\* only in the step in which the previous fetch rejected or the previous error
\* body was read.
C18_OneFetchAtATime ==
  /\ [](\A c \in CallIds :
          calls[c].fn = "apiRequest" =>
            /\ Cardinality(calls[c].outstanding) <= 1
            /\ calls[c].st \in {"fetch", "text"} =>
                 calls[c].outstanding = {Last(calls[c].contacted)}
            /\ calls[c].st = "decode" => calls[c].outstanding = {})
  /\ [][\A c \in CallIds :
          (calls[c].fn = "apiRequest" /\ calls'[c].fn = "apiRequest"
             /\ Len(calls[c].contacted) > 0
             /\ calls'[c].contacted # calls[c].contacted) =>
            /\ calls'[c].contacted = Append(calls[c].contacted, BaseOf(calls'[c]))
            /\ calls[c].outstanding = {Last(calls[c].contacted)}
            /\ \/ FetchReject(c)
               \/ TextReject(c)
               \/ \E message \in BodyTexts : TextResolve(c, message)]_vars

\* The call waits for its third candidate; the first two are done with.
C18_Witness ==
  \E c \in CallIds :
    /\ calls[c].fn = "apiRequest" /\ calls[c].st = "fetch"
    /\ Len(calls[c].contacted) = 3
    /\ calls[c].outstanding = {calls[c].contacted[3]}

\* What call c does, running alone from the active base URL it started with,
\* when its current candidate fails with error: it fetches the next candidate in
\* its order, or rejects with error after the last one.
AloneAfterFailure(c, error) ==
  LET order == ActiveFirst(calls[c].startActive)
      k == Len(calls[c].contacted)
  IN IF k < Len(order)
     THEN /\ calls'[c].st = "fetch"
          /\ calls'[c].contacted = Append(calls[c].contacted, order[k + 1])
          /\ calls'[c].lastError = error
          /\ settled' = NoSettle
     ELSE /\ ~settled'.ok
          /\ settled'.error = error
          /\ settled'.contacted = order

\* Of the calls that wait for the body of their successful response, one that
\* no other success has followed names the active base URL.
LastWriterWins ==
  /\ \A c \in CallIds :
       (calls[c].st = "decode" /\ ~calls[c].overtaken) =>
         activeApiBaseUrl = BaseOf(calls[c])
  /\ \A c, d \in CallIds :
       (c # d /\ calls[c].st = "decode" /\ calls[d].st = "decode"
          /\ BaseOf(calls[c]) # BaseOf(calls[d])) =>
         (calls[c].overtaken \/ calls[d].overtaken)

\* C19: when calls that run together succeed on different candidates, the
\* active base URL is the candidate of the call whose success status arrived
\* last; and every step of a call, and so its outcome, is the one it takes
\* running alone from the active base URL it started with on the same
\* response, whatever the other calls have written meanwhile.
C19_LastWriterWinsOutcomesUnaffected ==
  /\ []LastWriterWins
  /\ [][\A c \in CallIds :
          LET rec == calls[c]
              order == ActiveFirst(rec.startActive)
              k == Len(rec.contacted)
          IN /\ (FetchReject(c) \/ TextReject(c)) =>
                  AloneAfterFailure(c, TransportError(order[k]))
             /\ \A message \in BodyTexts :
                  TextResolve(c, message) =>
                    AloneAfterFailure(c, ResponseError(rec.status, message, order[k]))
             /\ \A status \in Statuses :
                  FetchResolve(c, status) =>
                    IF Ok(status)
                    THEN calls'[c].st = "decode" /\ activeApiBaseUrl' = order[k]
                    ELSE calls'[c].st = "text" /\ activeApiBaseUrl' = activeApiBaseUrl
             /\ \A body \in ResponseBodies :
                  DecodeResolve(c, body) =>
                    /\ settled'.ok
                    /\ settled'.candidate = order[k]
                    /\ settled'.value = IF rec.fn = "apiRequest" THEN JsonBody(order[k], body)
                                        ELSE BlobBody(order[k], body)
             /\ DecodeReject(c) =>
                  /\ ~settled'.ok
                  /\ settled'.error = DecodeError(order[k])]_vars

\* Two calls have their success status from different candidates; the later
\* one's candidate is the active base URL.
C19_Witness ==
  \E c, d \in CallIds :
    /\ calls[c].st = "decode" /\ calls[d].st = "decode"
    /\ BaseOf(calls[c]) # BaseOf(calls[d])
    /\ calls[c].overtaken /\ ~calls[d].overtaken
    /\ activeApiBaseUrl = BaseOf(calls[d])

\* C20: every step of an exportAiModelWeights call is the step apiRequest's
\* code takes from the same state on the same response: the same candidate
\* order at the start, the same next candidate or the same rejection after an
\* error body, the same write to the active base URL on a success status; only
\* the body is read as a blob.
C20_ExportFollowsSameProtocol ==
  [][\A c \in CallIds :
       /\ StartCall(c, "exportAiModelWeights") =>
            calls'[c] = [Sweep(NewCall("apiRequest", "site", ""))
                           EXCEPT !.fn = "exportAiModelWeights"]
       /\ calls[c].fn = "exportAiModelWeights" =>
            /\ \A message \in BodyTexts :
                 TextResolve(c, message) =>
                   Proceed(c, AfterText(Answered(calls[c]), message), NoPayload)
            /\ \A status \in Statuses :
                 (Ok(status) /\ FetchResolve(c, status)) =>
                   activeApiBaseUrl' = BaseOf(calls[c])
            /\ \A body \in ResponseBodies :
                 DecodeResolve(c, body) =>
                   /\ settled' =
                        [Settlement([calls[c] EXCEPT !.st = "returned"],
                                    JsonBody(BaseOf(calls[c]), body))
                           EXCEPT !.value.decoded = "blob", !.value.mode = "",
                                  !.value.scenario = ""]]_vars

\* An export call got a 404, then a success status from the next candidate, and
\* returned that candidate's body as a blob.
C20_Witness ==
  /\ Settled /\ settled.ok /\ settled.fn = "exportAiModelWeights"
  /\ settled.seen = {"notfound"}
  /\ Len(settled.contacted) = 2
  /\ settled.value = BlobBody(settled.contacted[2], PlainBody)
  /\ activeApiBaseUrl = settled.contacted[2]

\* C21: the active base URL is always one of the configured candidates, and so
\* is every candidate a call sweeps.
C21_ActiveIsACandidate ==
  /\ activeApiBaseUrl \in Range(API_FALLBACK_CANDIDATES)
  /\ \A c \in CallIds :
       InFlight(c) => Range(calls[c].candidateBases) = Range(API_FALLBACK_CANDIDATES)

\* The active base URL was moved to the last configured candidate while
\* another call is under way.
C21_Witness ==
  /\ Len(API_FALLBACK_CANDIDATES) = 3
  /\ activeApiBaseUrl = API_FALLBACK_CANDIDATES[3]
  /\ \E c, d \in CallIds :
       /\ calls[c].st = "decode" /\ BaseOf(calls[c]) = activeApiBaseUrl
       /\ calls[d].st = "fetch" /\ calls[d].fn # calls[c].fn

\* C22: a call that rejects without having received a success status has
\* assigned nothing to the active base URL: every step of a call other than the
\* arrival of a success status leaves the active base URL as it was, so only
\* another call's success can have changed it since the call started.
C22_RejectedCallDoesNotWrite ==
  /\ [](Settled /\ ~settled.ok =>
          (settled.wrote <=> settled.error.kind = "decode"))
  /\ [][\A c \in CallIds :
          (\/ FetchReject(c)
           \/ TextReject(c)
           \/ DecodeReject(c)
           \/ \E message \in BodyTexts : TextResolve(c, message)
           \/ \E status \in Statuses :
                (status < 200 \/ status > 299) /\ FetchResolve(c, status)) =>
            activeApiBaseUrl' = activeApiBaseUrl]_vars

\* A call that started with a fallback active swept all three candidates in
\* vain; the fallback is still active.
C22_Witness ==
  /\ Settled /\ ~settled.ok /\ ~settled.wrote
  /\ Len(settled.contacted) = 3
  /\ settled.startActive # PRIMARY_API_BASE_URL
  /\ activeApiBaseUrl = settled.startActive

C24_DecodeFailureRejectsDirectly ==
  /\ [](\A c \in CallIds :
          calls[c].st = "decode" =>
            calls[c].wrote /\ BaseOf(calls[c]) = Last(calls[c].contacted))
  /\ [][\A c \in CallIds :
          /\ (\E status \in Statuses :
                status >= 200 /\ status <= 299 /\ FetchResolve(c, status)) =>
               /\ activeApiBaseUrl' = BaseOf(calls[c])
               /\ calls'[c].st = "decode"
               /\ calls'[c].contacted = calls[c].contacted
          /\ DecodeReject(c) =>
               /\ settled'.fn = calls[c].fn /\ ~settled'.ok
               /\ settled'.error = DecodeError(BaseOf(calls[c]))
               /\ settled'.contacted = calls[c].contacted
               /\ activeApiBaseUrl' = activeApiBaseUrl
               /\ calls'[c].st # "fetch"]_vars

\* The first of three candidates answered with a success status, its body did
\* not decode: the call has rejected after one contact and the candidate is
\* the active base URL.
C24_Witness ==
  /\ Settled /\ ~settled.ok /\ settled.error.kind = "decode"
  /\ Len(API_FALLBACK_CANDIDATES) = 3
  /\ Len(settled.contacted) = 1
  /\ settled.wrote
  /\ activeApiBaseUrl = settled.candidate

\* C25: the response of a poll that was invoked before a forced re-fetch and
\* arrives after the forced re-fetch has applied its own response leaves
\* liveData, runtimeMode and scenario as they are.
C25_EarlierPollDoesNotOverwrite ==
  [][\A c \in CallIds :
       (/\ calls[c].owner = "poll" /\ calls[c].stale
        /\ \E body \in ResponseBodies : DecodeResolve(c, body)) =>
         /\ liveData' = liveData
         /\ runtimeMode' = runtimeMode
         /\ scenario' = scenario]_vars

====
